---- MODULE Spec2Model ----
(***************************************************************************)
(* Model of the iwd network-enumeration client (src/main.rs): the decoder  *)
(* of one object's interface -> property-bag map (All::deserialize), and   *)
(* the single control flow of main (connect, enumerate, build the catalog, *)
(* resolve the station, scan, list, join and print).                       *)
(***************************************************************************)
EXTENDS Integers, Sequences, FiniteSets, TLC

VARIABLES
    pc,         \* position of main's control flow
    result,     \* "running", "ok" (main returned Ok) or "err" (main returned Err)
    wire,       \* the get_managed_objects response: path -> sequence of (key, value)
    objects,    \* the decoded HashMap<OwnedObjectPath, All>
    remaining,  \* paths the for loop of main has not visited yet
    visited,    \* paths in the order the for loop visited them
    station,    \* Option<OPath<StationProxy>>: <<>> or <<path>>
    networks,   \* HashMap<OwnedObjectPath, Network>
    calls,      \* the IPC calls issued so far, in order, with their outcome
    ordered,    \* the pairs get_ordered_networks returned
    output,     \* the lines printed on standard output
    input,      \* decoder run: the (key, value) entries the MapAccess yields
    dpc,        \* decoder run: "ready" or "done"
    decoded     \* decoder run: the Result of All::deserialize

vars == <<pc, result, wire, objects, remaining, visited, station, networks,
          calls, ordered, output, input, dpc, decoded>>

mainVars == <<pc, result, wire, objects, remaining, visited, station,
              networks, calls, ordered, output>>

decVars == <<input, dpc, decoded>>

----------------------------------------------------------------------------
(* Bounds *)

MaxIfaces == 3
MaxOrdered == 3

----------------------------------------------------------------------------
(* Option<T> is a sequence of length 0 or 1; a HashMap is a function.      *)

None == << >>
Some(x) == <<x>>
EmptyMap == << >>
Put(m, k, v) == [x \in (DOMAIN m) \cup {k} |-> IF x = k THEN v ELSE m[x]]

(* Result<T, E>: the error value carries no T. *)
Ok(x) == [ok |-> TRUE, val |-> <<x>>]
Err == [ok |-> FALSE, val |-> << >>]

----------------------------------------------------------------------------
(* Interface names *)

StationName == "net.connman.iwd.Station"
DeviceName == "net.connman.iwd.Device"
NetworkName == "net.connman.iwd.Network"
KnownNetworkName == "net.connman.iwd.KnownNetwork"
AdapterName == "net.connman.iwd.Adapter"

(* Enumerations: wire string -> variant *)
StationState ==
    [connected |-> "Connected", disconnected |-> "Disconnected",
     connecting |-> "Connecting", disconnecting |-> "Disconnecting",
     roaming |-> "Roaming"]

DeviceMode ==
    ("ad-hoc" :> "AdHoc") @@ ("station" :> "Station") @@ ("ap" :> "Ap")

NetworkType ==
    ("open" :> "Open") @@ ("wep" :> "Wep") @@ ("psk" :> "Psk")
    @@ ("8021x" :> "Eap") @@ ("hotspot" :> "Hotspot")

(* A dynamically typed value: its signature and its payload (strings). *)
Str(s) == [sig |-> "s", val |-> <<s>>]
Bool(b) == [sig |-> "b", val |-> <<b>>]
ObjPath(p) == [sig |-> "o", val |-> <<p>>]
StrArray(a) == [sig |-> "as", val |-> a]

(* Field access of DeserializeDict *)
Has(bag, f, sig) == f \in DOMAIN bag /\ bag[f].sig = sig
Required(bag, f, sig) == Has(bag, f, sig)
Optional(bag, f, sig) == f \in DOMAIN bag => bag[f].sig = sig
Get(bag, f) == bag[f].val[1]
GetOpt(bag, f) == IF f \in DOMAIN bag THEN Some(bag[f].val[1]) ELSE None
IsBool(bag, f) == Has(bag, f, "b") /\ Get(bag, f) \in {"true", "false"}
GetBool(bag, f) == Get(bag, f) = "true"
IsEnum(bag, f, enum) == Has(bag, f, "s") /\ Get(bag, f) \in DOMAIN enum

DecodeStation(bag) ==
    IF /\ IsEnum(bag, "State", StationState)
       /\ Optional(bag, "ConnectedNetwork", "o")
       /\ IsBool(bag, "Scanning")
    THEN Ok([state |-> StationState[Get(bag, "State")],
             connected_network |-> GetOpt(bag, "ConnectedNetwork"),
             scanning |-> GetBool(bag, "Scanning")])
    ELSE Err

DecodeDevice(bag) ==
    IF /\ Required(bag, "Name", "s")
       /\ Required(bag, "Address", "s")
       /\ IsBool(bag, "Powered")
       /\ Required(bag, "Adapter", "o")
       /\ IsEnum(bag, "Mode", DeviceMode)
    THEN Ok([name |-> Get(bag, "Name"),
             address |-> Get(bag, "Address"),
             powered |-> GetBool(bag, "Powered"),
             adapter |-> Get(bag, "Adapter"),
             mode |-> DeviceMode[Get(bag, "Mode")]])
    ELSE Err

DecodeNetwork(bag) ==
    IF /\ Required(bag, "Name", "s")
       /\ IsEnum(bag, "Type", NetworkType)
       /\ IsBool(bag, "Connected")
       /\ Required(bag, "Device", "o")
       /\ Optional(bag, "KnownNetwork", "o")
    THEN Ok([name |-> Get(bag, "Name"),
             type_ |-> NetworkType[Get(bag, "Type")],
             connected |-> GetBool(bag, "Connected"),
             device |-> Get(bag, "Device"),
             known_network |-> GetOpt(bag, "KnownNetwork")])
    ELSE Err

DecodeKnownNetwork(bag) ==
    IF /\ Required(bag, "Name", "s")
       /\ IsEnum(bag, "Type", NetworkType)
       /\ IsBool(bag, "Hidden")
       /\ Required(bag, "LastConnectedTime", "s")
       /\ IsBool(bag, "AutoConnect")
    THEN Ok([name |-> Get(bag, "Name"),
             type_ |-> NetworkType[Get(bag, "Type")],
             hidden |-> GetBool(bag, "Hidden"),
             last_connected_time |-> Get(bag, "LastConnectedTime"),
             auto_connect |-> GetBool(bag, "AutoConnect")])
    ELSE Err

DecodeAdapter(bag) ==
    IF /\ Required(bag, "Name", "s")
       /\ IsBool(bag, "Powered")
       /\ Optional(bag, "Model", "s")
       /\ Optional(bag, "Vendor", "s")
       /\ Has(bag, "SupportedModes", "as")
       /\ \A i \in DOMAIN bag["SupportedModes"].val :
              bag["SupportedModes"].val[i] \in DOMAIN DeviceMode
    THEN Ok([name |-> Get(bag, "Name"),
             powered |-> GetBool(bag, "Powered"),
             model |-> GetOpt(bag, "Model"),
             vendor |-> GetOpt(bag, "Vendor"),
             supported_modes |->
                 [i \in DOMAIN bag["SupportedModes"].val |->
                      DeviceMode[bag["SupportedModes"].val[i]]]])
    ELSE Err

----------------------------------------------------------------------------
(* The capability bundle and its decoder *)

Recognized ==
    {StationName, DeviceName, NetworkName, KnownNetworkName, AdapterName}

(* Names that parse as a D-Bus interface name but are not in the registry. *)
OtherNames == {"org.freedesktop.DBus.Properties", "net.connman.iwd.WiFiSimpleConfiguration"}

(* A key that is not an interface name at all (a single element). *)
BadKey == "iwd"

(* OwnedInterfaceName only deserializes from a well-formed interface name. *)
IsInterfaceName(key) == key \in Recognized \cup OtherNames

AllDefault ==
    [station |-> None, device |-> None, network |-> None,
     known_network |-> None, adapter |-> None, rest |-> EmptyMap]

(* Faulty variant: a bag that fails to decode is kept as an unrecognized one. *)
VisitEntryLenient(res, key, bag) ==
    IF ~IsInterfaceName(key) THEN Err
    ELSE IF key = StationName THEN
        IF DecodeStation(bag).ok
        THEN Ok([res EXCEPT !.station = DecodeStation(bag).val])
        ELSE Ok([res EXCEPT !.rest = Put(res.rest, key, bag)])
    ELSE IF key = DeviceName THEN
        IF DecodeDevice(bag).ok
        THEN Ok([res EXCEPT !.device = DecodeDevice(bag).val])
        ELSE Ok([res EXCEPT !.rest = Put(res.rest, key, bag)])
    ELSE IF key = NetworkName THEN
        IF DecodeNetwork(bag).ok
        THEN Ok([res EXCEPT !.network = DecodeNetwork(bag).val])
        ELSE Ok([res EXCEPT !.rest = Put(res.rest, key, bag)])
    ELSE IF key = KnownNetworkName THEN
        IF DecodeKnownNetwork(bag).ok
        THEN Ok([res EXCEPT !.known_network = DecodeKnownNetwork(bag).val])
        ELSE Ok([res EXCEPT !.rest = Put(res.rest, key, bag)])
    ELSE IF key = AdapterName THEN
        IF DecodeAdapter(bag).ok
        THEN Ok([res EXCEPT !.adapter = DecodeAdapter(bag).val])
        ELSE Ok([res EXCEPT !.rest = Put(res.rest, key, bag)])
    ELSE Ok([res EXCEPT !.rest = Put(res.rest, key, bag)])

(* Faulty variant: the Adapter branch is missing, so Adapter falls through to rest. *)
VisitEntryNoAdapter(res, key, bag) ==
    IF ~IsInterfaceName(key) THEN Err
    ELSE IF key = StationName THEN
        IF DecodeStation(bag).ok
        THEN Ok([res EXCEPT !.station = DecodeStation(bag).val]) ELSE Err
    ELSE IF key = DeviceName THEN
        IF DecodeDevice(bag).ok
        THEN Ok([res EXCEPT !.device = DecodeDevice(bag).val]) ELSE Err
    ELSE IF key = NetworkName THEN
        IF DecodeNetwork(bag).ok
        THEN Ok([res EXCEPT !.network = DecodeNetwork(bag).val]) ELSE Err
    ELSE IF key = KnownNetworkName THEN
        IF DecodeKnownNetwork(bag).ok
        THEN Ok([res EXCEPT !.known_network = DecodeKnownNetwork(bag).val])
        ELSE Err
    ELSE Ok([res EXCEPT !.rest = Put(res.rest, key, bag)])

(* Faulty variant: a slot that is already populated is not overwritten. *)
VisitEntryFirstWins(res, key, bag) ==
    IF ~IsInterfaceName(key) THEN Err
    ELSE IF key = StationName THEN
        IF ~DecodeStation(bag).ok THEN Err
        ELSE IF res.station # None THEN Ok(res)
        ELSE Ok([res EXCEPT !.station = DecodeStation(bag).val])
    ELSE IF key = DeviceName THEN
        IF ~DecodeDevice(bag).ok THEN Err
        ELSE IF res.device # None THEN Ok(res)
        ELSE Ok([res EXCEPT !.device = DecodeDevice(bag).val])
    ELSE IF key = NetworkName THEN
        IF ~DecodeNetwork(bag).ok THEN Err
        ELSE IF res.network # None THEN Ok(res)
        ELSE Ok([res EXCEPT !.network = DecodeNetwork(bag).val])
    ELSE IF key = KnownNetworkName THEN
        IF ~DecodeKnownNetwork(bag).ok THEN Err
        ELSE IF res.known_network # None THEN Ok(res)
        ELSE Ok([res EXCEPT !.known_network = DecodeKnownNetwork(bag).val])
    ELSE IF key = AdapterName THEN
        IF ~DecodeAdapter(bag).ok THEN Err
        ELSE IF res.adapter # None THEN Ok(res)
        ELSE Ok([res EXCEPT !.adapter = DecodeAdapter(bag).val])
    ELSE Ok([res EXCEPT !.rest = Put(res.rest, key, bag)])

(* One iteration of the while loop of visit_map: next_key()?, then the     *)
(* branch on the key with next_value()?.  Each ? returns the error.        *)
VisitEntry(res, key, bag) ==
    IF ~IsInterfaceName(key) THEN Err
    ELSE IF key = StationName THEN
        IF DecodeStation(bag).ok
        THEN Ok([res EXCEPT !.station = DecodeStation(bag).val]) ELSE Err
    ELSE IF key = DeviceName THEN
        IF DecodeDevice(bag).ok
        THEN Ok([res EXCEPT !.device = DecodeDevice(bag).val]) ELSE Err
    ELSE IF key = NetworkName THEN
        IF DecodeNetwork(bag).ok
        THEN Ok([res EXCEPT !.network = DecodeNetwork(bag).val]) ELSE Err
    ELSE IF key = KnownNetworkName THEN
        IF DecodeKnownNetwork(bag).ok
        THEN Ok([res EXCEPT !.known_network = DecodeKnownNetwork(bag).val])
        ELSE Err
    ELSE IF key = AdapterName THEN
        IF DecodeAdapter(bag).ok
        THEN Ok([res EXCEPT !.adapter = DecodeAdapter(bag).val]) ELSE Err
    ELSE Ok([res EXCEPT !.rest = Put(res.rest, key, bag)])

RECURSIVE VisitLoop(_, _, _)
VisitLoop(map, i, res) ==
    IF i > Len(map) THEN Ok(res)
    ELSE LET step == VisitEntry(res, map[i].key, map[i].value)
         IN  IF step.ok THEN VisitLoop(map, i + 1, step.val[1]) ELSE Err

visit_map(map) == VisitLoop(map, 1, AllDefault)

----------------------------------------------------------------------------
(* Property bags the decoder is run on *)

StationBag1 == [State |-> Str("connected"), Scanning |-> Bool("false")]
StationBag2 ==
    [State |-> Str("roaming"), Scanning |-> Bool("true"),
     ConnectedNetwork |-> ObjPath("/n1")]
StationBagBadState ==
    [State |-> Str("unknown-state"), Scanning |-> Bool("false")]
StationBagNoScanning == [State |-> Str("connected")]

DeviceBag1 ==
    [Name |-> Str("wlan0"), Address |-> Str("00:11"), Powered |-> Bool("true"),
     Adapter |-> ObjPath("/0"), Mode |-> Str("station")]
DeviceBagBadMode ==
    [Name |-> Str("wlan0"), Address |-> Str("00:11"), Powered |-> Bool("true"),
     Adapter |-> ObjPath("/0"), Mode |-> Str("access-point")]

NetworkBagFoo ==
    [Name |-> Str("Foo"), Type |-> Str("psk"), Connected |-> Bool("false"),
     Device |-> ObjPath("/s1")]
NetworkBagBar ==
    [Name |-> Str("Bar"), Type |-> Str("8021x"), Connected |-> Bool("true"),
     Device |-> ObjPath("/s1"), KnownNetwork |-> ObjPath("/k1")]
NetworkBagBadType ==
    [Name |-> Str("Baz"), Type |-> Str("PSK"), Connected |-> Bool("false"),
     Device |-> ObjPath("/s1")]

KnownNetworkBag1 ==
    [Name |-> Str("Bar"), Type |-> Str("8021x"), Hidden |-> Bool("false"),
     LastConnectedTime |-> Str("2024-01-01T00:00:00Z"),
     AutoConnect |-> Bool("true")]
KnownNetworkBagNoName ==
    [Type |-> Str("open"), Hidden |-> Bool("false"),
     LastConnectedTime |-> Str("2024-01-01T00:00:00Z"),
     AutoConnect |-> Bool("true")]

AdapterBag1 ==
    [Name |-> Str("phy0"), Powered |-> Bool("true"),
     SupportedModes |-> StrArray(<<"station", "ap">>)]
AdapterBagBadPowered ==
    [Name |-> Str("phy0"), Powered |-> Str("yes"),
     SupportedModes |-> StrArray(<<"station">>)]

RawBag1 == [Foo |-> Str("x")]
RawBag2 == [State |-> Str("unknown-state")]

Entry(k, v) == [key |-> k, value |-> v]

Entries ==
    {Entry(StationName, b) :
        b \in {StationBag1, StationBag2, StationBagBadState,
               StationBagNoScanning}}
    \cup {Entry(DeviceName, b) : b \in {DeviceBag1, DeviceBagBadMode}}
    \cup {Entry(NetworkName, b) :
        b \in {NetworkBagFoo, NetworkBagBar, NetworkBagBadType}}
    \cup {Entry(KnownNetworkName, b) :
        b \in {KnownNetworkBag1, KnownNetworkBagNoName}}
    \cup {Entry(AdapterName, b) : b \in {AdapterBag1, AdapterBagBadPowered}}
    \cup {Entry(n, b) : n \in OtherNames, b \in {RawBag1, RawBag2}}
    \cup {Entry(BadKey, RawBag1)}

RECURSIVE SeqsUpTo(_, _)
SeqsUpTo(S, n) ==
    IF n = 0 THEN {<< >>}
    ELSE LET shorter == SeqsUpTo(S, n - 1)
         IN  shorter \cup {Append(s, x) : s \in shorter, x \in S}


----------------------------------------------------------------------------
(* The run of main *)

Paths == {"/o1", "/o2", "/o3"}
Signals == {50, 90}

(* What one object of the enumeration response may expose. *)
ObjectInputs ==
    {<<Entry(StationName, StationBag1), Entry(DeviceName, DeviceBag1),
       Entry("org.freedesktop.DBus.Properties", RawBag1)>>,
     <<Entry(StationName, StationBag2), Entry(DeviceName, DeviceBag1),
       Entry(NetworkName, NetworkBagFoo)>>,
     <<Entry(NetworkName, NetworkBagFoo)>>,
     <<Entry(StationName, StationBag1), Entry(NetworkName, NetworkBagBar)>>,
     <<Entry(AdapterName, AdapterBag1)>>,
     <<Entry(StationName, StationBagBadState)>>}

Call(op, target, outcome) == [op |-> op, target |-> target, outcome |-> outcome]
NoTarget == "-"

(* The if let / else if let chain of the for loop: first match wins. *)
ClassifyNetworkFirst(s) ==
    IF s.network # None THEN "network"
    ELSE IF s.station # None /\ s.device # None THEN "station"
    ELSE "other"

ClassifyNoStationSlot(s) ==
    IF s.station # None /\ s.device # None THEN "station"
    ELSE IF s.network # None /\ s.station = None THEN "network"
    ELSE "other"

Classify(s) ==
    IF s.station # None /\ s.device # None THEN "station"
    ELSE IF s.network # None THEN "network"
    ELSE "other"

(* The for loop over the ordered pairs: one line per pair found in networks. *)
RECURSIVE JoinLoop(_, _, _, _)
JoinLoop(pairs, nets, i, out) ==
    IF i > Len(pairs) THEN out
    ELSE IF pairs[i][1] \in DOMAIN nets
         THEN JoinLoop(pairs, nets, i + 1, Append(out, nets[pairs[i][1]].name))
         ELSE JoinLoop(pairs, nets, i + 1, out)

(* Faulty variant: the pairs are walked from the last to the first. *)
RECURSIVE JoinLoopBack(_, _, _, _)
JoinLoopBack(pairs, nets, i, out) ==
    IF i < 1 THEN out
    ELSE IF pairs[i][1] \in DOMAIN nets
         THEN JoinLoopBack(pairs, nets, i - 1, Append(out, nets[pairs[i][1]].name))
         ELSE JoinLoopBack(pairs, nets, i - 1, out)

JoinReversed(pairs, nets) == JoinLoopBack(pairs, nets, Len(pairs), << >>)

Join(pairs, nets) == JoinLoop(pairs, nets, 1, << >>)

Init ==
    /\ pc = "start"
    /\ result = "running"
    /\ wire = EmptyMap
    /\ objects = EmptyMap
    /\ remaining = {}
    /\ visited = << >>
    /\ station = None
    /\ networks = EmptyMap
    /\ calls = << >>
    /\ ordered = << >>
    /\ output = << >>
    /\ input = << >>
    /\ dpc = "idle"
    /\ decoded = Err

Fail(op, target) ==
    /\ calls' = Append(calls, Call(op, target, "err"))
    /\ pc' = "done"
    /\ result' = "err"

(* let conn = Connection::system().await?; *)
Connect ==
    /\ pc = "start"
    /\ \/ /\ calls' = Append(calls, Call("connect", NoTarget, "ok"))
          /\ pc' = "connected"
          /\ UNCHANGED result
       \/ Fail("connect", NoTarget)
    /\ UNCHANGED <<wire, objects, remaining, visited, station, networks,
                   ordered, output>>
    /\ UNCHANGED decVars

(* let that = ObjectManagerProxy::new(&conn, "net.connman.iwd", "/").await?; *)
NewObjectManager ==
    /\ pc = "connected"
    /\ \/ /\ calls' = Append(calls, Call("object_manager", NoTarget, "ok"))
          /\ pc' = "manager"
          /\ UNCHANGED result
       \/ Fail("object_manager", NoTarget)
    /\ UNCHANGED <<wire, objects, remaining, visited, station, networks,
                   ordered, output>>
    /\ UNCHANGED decVars

(* let objects = that.get_managed_objects().await?;  The reply is decoded  *)
(* object by object; one object that fails to decode fails the call.       *)
GetManagedObjects ==
    /\ pc = "manager"
    /\ \/ /\ Fail("get_managed_objects", NoTarget)
          /\ UNCHANGED <<wire, objects, remaining>>
       \/ \E S \in SUBSET Paths : \E w \in [S -> ObjectInputs] :
            LET dec == [p \in S |-> visit_map(w[p])]
            IN  /\ wire' = w
                /\ IF \A p \in S : dec[p].ok
                   THEN /\ objects' = [p \in S |-> dec[p].val[1]]
                        /\ remaining' = S
                        /\ calls' = Append(calls,
                               Call("get_managed_objects", NoTarget, "ok"))
                        /\ pc' = "catalog"
                        /\ UNCHANGED result
                   ELSE /\ Fail("get_managed_objects", NoTarget)
                        /\ UNCHANGED <<objects, remaining>>
    /\ UNCHANGED <<visited, station, networks, ordered, output>>
    /\ UNCHANGED decVars

(* Faulty variant: the first qualifying object is kept. *)
CatalogStepFirstWins ==
    /\ pc = "catalog"
    /\ \E path \in remaining :
         LET s == objects[path]
         IN  /\ remaining' = remaining \ {path}
             /\ visited' = Append(visited, path)
             /\ IF Classify(s) = "station"
                THEN /\ station' = IF station = None THEN Some(path) ELSE station
                     /\ UNCHANGED networks
                ELSE IF Classify(s) = "network"
                THEN /\ networks' = Put(networks, path, s.network[1])
                     /\ UNCHANGED station
                ELSE UNCHANGED <<station, networks>>
    /\ UNCHANGED <<pc, result, wire, objects, calls, ordered, output>>
    /\ UNCHANGED decVars

(* One iteration of for (path, s) in objects.into_iter(); the HashMap      *)
(* yields its entries in an unspecified order.                             *)
CatalogStep ==
    /\ pc = "catalog"
    /\ \E path \in remaining :
         LET s == objects[path]
         IN  /\ remaining' = remaining \ {path}
             /\ visited' = Append(visited, path)
             /\ IF Classify(s) = "station"
                THEN /\ station' = Some(path)
                     /\ UNCHANGED networks
                ELSE IF Classify(s) = "network"
                THEN /\ networks' = Put(networks, path, s.network[1])
                     /\ UNCHANGED station
                ELSE UNCHANGED <<station, networks>>
    /\ UNCHANGED <<pc, result, wire, objects, calls, ordered, output>>
    /\ UNCHANGED decVars

(* Faulty variant: a run without a station is reported as a failure. *)
NoStationFails ==
    /\ pc = "catalog"
    /\ remaining = {}
    /\ station = None
    /\ pc' = "done"
    /\ result' = "err"
    /\ UNCHANGED <<wire, objects, remaining, visited, station, networks,
                   calls, ordered, output>>
    /\ UNCHANGED decVars

(* if let Some(station) = station { .. } not taken; Ok(()) *)
NoStation ==
    /\ pc = "catalog"
    /\ remaining = {}
    /\ station = None
    /\ pc' = "done"
    /\ result' = "ok"
    /\ UNCHANGED <<wire, objects, remaining, visited, station, networks,
                   calls, ordered, output>>
    /\ UNCHANGED decVars

(* let station = station.proxy(&conn).await?; *)
Proxy ==
    /\ pc = "catalog"
    /\ remaining = {}
    /\ station # None
    /\ \/ /\ calls' = Append(calls, Call("proxy", station[1], "ok"))
          /\ pc' = "proxied"
          /\ UNCHANGED result
       \/ Fail("proxy", station[1])
    /\ UNCHANGED <<wire, objects, remaining, visited, station, networks,
                   ordered, output>>
    /\ UNCHANGED decVars

(* Faulty variant: the scan result is propagated with ?. *)
ScanPropagates ==
    /\ pc = "proxied"
    /\ \/ /\ calls' = Append(calls, Call("scan", station[1], "ok"))
          /\ pc' = "scanned"
          /\ UNCHANGED result
       \/ Fail("scan", station[1])
    /\ UNCHANGED <<wire, objects, remaining, visited, station, networks,
                   ordered, output>>
    /\ UNCHANGED decVars

(* station.scan().await.ok(); *)
Scan ==
    /\ pc = "proxied"
    /\ \E outcome \in {"ok", "err"} :
          calls' = Append(calls, Call("scan", station[1], outcome))
    /\ pc' = "scanned"
    /\ UNCHANGED <<result, wire, objects, remaining, visited, station,
                   networks, ordered, output>>
    /\ UNCHANGED decVars

(* Faulty variant: a failing listing is taken as an empty one. *)
GetOrderedNetworksLenient ==
    /\ pc = "scanned"
    /\ \/ /\ \E pairs \in SeqsUpTo(Paths \X Signals, MaxOrdered) :
                ordered' = pairs
          /\ calls' = Append(calls, Call("get_ordered_networks", station[1], "ok"))
       \/ /\ ordered' = << >>
          /\ calls' = Append(calls, Call("get_ordered_networks", station[1], "err"))
    /\ pc' = "listed"
    /\ UNCHANGED <<result, wire, objects, remaining, visited, station, networks,
                   output>>
    /\ UNCHANGED decVars

(* let ordered_networks = station.get_ordered_networks().await?; *)
GetOrderedNetworks ==
    /\ pc = "scanned"
    /\ \/ /\ \E pairs \in SeqsUpTo(Paths \X Signals, MaxOrdered) :
                ordered' = pairs
          /\ calls' = Append(calls, Call("get_ordered_networks", station[1], "ok"))
          /\ pc' = "listed"
          /\ UNCHANGED result
       \/ /\ Fail("get_ordered_networks", station[1])
          /\ UNCHANGED ordered
    /\ UNCHANGED <<wire, objects, remaining, visited, station, networks,
                   output>>
    /\ UNCHANGED decVars

(* for (net, _strength) in ordered_networks.iter() { .. println!("{name}") } *)
(* and Ok(())                                                              *)
PrintNetworks ==
    /\ pc = "listed"
    /\ output' = Join(ordered, networks)
    /\ pc' = "done"
    /\ result' = "ok"
    /\ UNCHANGED <<wire, objects, remaining, visited, station, networks,
                   calls, ordered>>
    /\ UNCHANGED decVars

Next ==
    \/ Connect
    \/ NewObjectManager
    \/ GetManagedObjects
    \/ CatalogStep
    \/ NoStation
    \/ Proxy
    \/ Scan
    \/ GetOrderedNetworks
    \/ PrintNetworks

Spec == Init /\ [][Next]_vars

----------------------------------------------------------------------------
(* The decoder run on its own: any sequence of entries up to MaxIfaces.    *)

InitDecode ==
    /\ pc = "decode"
    /\ result = "running"
    /\ wire = EmptyMap
    /\ objects = EmptyMap
    /\ remaining = {}
    /\ visited = << >>
    /\ station = None
    /\ networks = EmptyMap
    /\ calls = << >>
    /\ ordered = << >>
    /\ output = << >>
    /\ input \in SeqsUpTo(Entries, MaxIfaces)
    /\ dpc = "ready"
    /\ decoded = Err

(* deserializer.deserialize_map(Visit) *)
Deserialize ==
    /\ dpc = "ready"
    /\ decoded' = visit_map(input)
    /\ dpc' = "done"
    /\ UNCHANGED input
    /\ UNCHANGED mainVars

NextDecode == Deserialize

SpecDecode == InitDecode /\ [][NextDecode]_vars


----------------------------------------------------------------------------
(* Vocabulary of the properties *)

Issued(op) == \E i \in DOMAIN calls : calls[i].op = op
Succeeded(op) == \E i \in DOMAIN calls : calls[i].op = op /\ calls[i].outcome = "ok"
Failed(op) == \E i \in DOMAIN calls : calls[i].op = op /\ calls[i].outcome = "err"
Count(op) == Cardinality({i \in DOMAIN calls : calls[i].op = op})
StationOps == {"proxy", "scan", "get_ordered_networks"}
FatalOps ==
    {"connect", "object_manager", "get_managed_objects", "proxy",
     "get_ordered_networks"}

HasStationAndDevice(p) == objects[p].station # None /\ objects[p].device # None
HasNetwork(p) == objects[p].network # None
Candidates == {p \in DOMAIN objects : HasStationAndDevice(p)}
Enumerated == Succeeded("get_managed_objects")
CatalogBuilt == Enumerated /\ remaining = {}
Visited == {visited[i] : i \in DOMAIN visited}
CandidateIdx == {i \in DOMAIN visited : HasStationAndDevice(visited[i])}
LastOf(S) == CHOOSE i \in S : \A j \in S : j <= i

(* The names of the pairs found in the lookup, in the order of the pairs. *)
ExpectedLines ==
    LET present == SelectSeq(ordered, LAMBDA pr : pr[1] \in DOMAIN networks)
    IN  [i \in 1..Len(present) |-> networks[present[i][1]].name]

(* C1: once the listing has been printed, the lines are exactly the names  *)
(* of the pairs whose identity is a key of the lookup, in the order of the *)
(* pairs; pairs whose identity is absent give no line and no error.        *)
C1_JoinPreservesOrder ==
    (pc = "done" /\ Succeeded("get_ordered_networks"))
        => (result = "ok" /\ output = ExpectedLines)

C1_Witness ==
    /\ pc = "done"
    /\ Len(ordered) = 3
    /\ ordered[2][1] \notin DOMAIN networks
    /\ ordered[1][2] < ordered[3][2]
    /\ output = <<"Foo", "Bar">>

(* C2: get_ordered_networks is issued only after the scan call completed,  *)
(* a failed scan does not end the run, and the lines printed depend on the *)
(* pairs and the lookup only, not on the outcome of the scan.              *)
C2_ScanFailureIgnored ==
    /\ \A j \in DOMAIN calls :
          calls[j].op = "get_ordered_networks"
              => \E i \in 1..(j - 1) : calls[i].op = "scan"
    /\ Failed("scan") =>
          \/ pc = "scanned" /\ result = "running"
          \/ Issued("get_ordered_networks")
    /\ (pc = "done" /\ Succeeded("get_ordered_networks"))
          => output = ExpectedLines

C2_Witness ==
    /\ pc = "done"
    /\ Failed("scan")
    /\ Succeeded("get_ordered_networks")
    /\ result = "ok"
    /\ Len(output) = 2

(* C3: a failure of connect, of the object manager, of get_managed_objects *)
(* (a decode error included), of the handle resolution or of               *)
(* get_ordered_networks is the last call of the run, the run ends in       *)
(* failure with no line printed; no failed run has printed a line and no   *)
(* call is issued twice.                                                   *)
C3_FatalErrorNoOutput ==
    /\ \A i \in DOMAIN calls :
          (calls[i].op \in FatalOps /\ calls[i].outcome = "err")
              => /\ i = Len(calls)
                 /\ pc = "done"
                 /\ result = "err"
                 /\ output = << >>
    /\ result = "err" => output = << >>
    /\ \A i, j \in DOMAIN calls : calls[i].op = calls[j].op => i = j

C3_Witness ==
    /\ result = "err"
    /\ Failed("get_ordered_networks")
    /\ DOMAIN networks # {}

(* C7: an object with Station and Device populated is the station          *)
(* candidate and is not in the network lookup, whatever else it has; an    *)
(* object lacking Station or Device is never the station; an object that   *)
(* matches neither rule is in neither structure.                           *)
C7_Classification ==
    /\ \A p \in DOMAIN networks : p \in Visited
    /\ station # None => station[1] \in Visited
    /\ \A p \in Visited :
          /\ HasStationAndDevice(p) => (p \notin DOMAIN networks /\ station # None)
          /\ ~HasStationAndDevice(p) => station # Some(p)
          /\ (~HasStationAndDevice(p) /\ ~HasNetwork(p))
                => p \notin DOMAIN networks
    /\ (visited # << >> /\ HasStationAndDevice(visited[Len(visited)]))
          => station = Some(visited[Len(visited)])

C7_Witness ==
    /\ CatalogBuilt
    /\ \E p, q, r \in DOMAIN objects :
          /\ HasStationAndDevice(p) /\ HasNetwork(p)
          /\ station = Some(p) /\ p \notin DOMAIN networks
          /\ objects[q].station = None /\ HasNetwork(q) /\ q \in DOMAIN networks
          /\ ~HasStationAndDevice(r) /\ ~HasNetwork(r)

(* C8: when the enumeration succeeded and no object has both Station and   *)
(* Device, no handle is resolved, neither scan nor get_ordered_networks is *)
(* issued, no line is printed and the run ends successfully.               *)
C8_NoStation ==
    (Enumerated /\ Candidates = {})
        => /\ \A op \in StationOps : ~Issued(op)
           /\ output = << >>
           /\ pc \in {"catalog", "done"}
           /\ pc = "done" => result = "ok"

C8_Witness ==
    /\ Enumerated
    /\ Candidates = {}
    /\ DOMAIN networks # {}
    /\ pc = "done"
    /\ result = "ok"

(* C9 as stated: once the catalog is built, every object with a populated  *)
(* Network slot has its entry in the network lookup.                       *)
C9_Original ==
    CatalogBuilt =>
        \A p \in DOMAIN objects :
            HasNetwork(p) =>
                (p \in DOMAIN networks /\ networks[p] = objects[p].network[1])

(* C9 amended: once the catalog is built, every object with a populated    *)
(* Network slot that lacks Station or lacks Device has its entry, with its *)
(* Network record, in the network lookup.                                  *)
C9_NetworkLookup ==
    CatalogBuilt =>
        \A p \in DOMAIN objects :
            (HasNetwork(p) /\ ~HasStationAndDevice(p)) =>
                (p \in DOMAIN networks /\ networks[p] = objects[p].network[1])

C9_Witness ==
    /\ CatalogBuilt
    /\ \E p, q \in DOMAIN objects :
          /\ HasNetwork(p) /\ HasStationAndDevice(p) /\ p \notin DOMAIN networks
          /\ HasNetwork(q) /\ objects[q].station # None
          /\ q \in DOMAIN networks /\ networks[q].name = "Bar"

(* C10: the station handle is the qualifying object visited last; the      *)
(* handle resolution, the scan and get_ordered_networks are issued after   *)
(* the catalog is built, at most once each, against that object only, and  *)
(* exactly once each in a run that ends successfully with a station.       *)
C10_LastCandidateWins ==
    /\ station = IF CandidateIdx = {} THEN None
                 ELSE Some(visited[LastOf(CandidateIdx)])
    /\ \A i \in DOMAIN calls :
          calls[i].op \in StationOps
              => /\ remaining = {}
                 /\ CandidateIdx # {}
                 /\ calls[i].target = visited[LastOf(CandidateIdx)]
    /\ \A op \in StationOps : Count(op) <= 1
    /\ (pc = "done" /\ result = "ok" /\ station # None)
          => \A op \in StationOps : Count(op) = 1

C10_Witness ==
    /\ pc = "done"
    /\ result = "ok"
    /\ Cardinality(CandidateIdx) >= 2
    /\ \A op \in StationOps :
          \E i \in DOMAIN calls :
              calls[i].op = op /\ calls[i].target = visited[LastOf(CandidateIdx)]

----------------------------------------------------------------------------
(* Properties of the decoder *)

Decodes(key, bag) ==
    CASE key = StationName -> DecodeStation(bag).ok
      [] key = DeviceName -> DecodeDevice(bag).ok
      [] key = NetworkName -> DecodeNetwork(bag).ok
      [] key = KnownNetworkName -> DecodeKnownNetwork(bag).ok
      [] key = AdapterName -> DecodeAdapter(bag).ok
      [] OTHER -> TRUE

Keys == {input[i].key : i \in DOMAIN input}
LastIdx(n) == LastOf({i \in DOMAIN input : input[i].key = n})
LastBag(n) == input[LastIdx(n)].value

(* C4: if the bag of a recognized interface fails to decode, decoding the  *)
(* object gives an error and no bundle: neither one that keeps the failing *)
(* interface in rest nor one made of the other interfaces.                 *)
C4_DecodeErrorFailsBundle ==
    (dpc = "done" /\ \E i \in DOMAIN input :
                        /\ input[i].key \in Recognized
                        /\ ~Decodes(input[i].key, input[i].value))
        => (~decoded.ok /\ decoded.val = << >>)

C4_Witness ==
    /\ dpc = "done"
    /\ input = <<Entry(DeviceName, DeviceBag1),
                 Entry(StationName, StationBagBadState)>>
    /\ decoded = Err

(* C5: the rest of a decoded bundle holds none of the five recognized      *)
(* names, and holds every unrecognized name of the input with the raw bag  *)
(* the input gave it (the last one when the name occurs more than once).   *)
C5_Residual ==
    (dpc = "done" /\ decoded.ok)
        => LET rest == decoded.val[1].rest
           IN  /\ DOMAIN rest \cap Recognized = {}
               /\ \A i \in DOMAIN input :
                     input[i].key \notin Recognized
                         => /\ input[i].key \in DOMAIN rest
                            /\ rest[input[i].key] = LastBag(input[i].key)

C5_Witness ==
    /\ dpc = "done"
    /\ decoded.ok
    /\ Len(input) = 3
    /\ input[1].key = AdapterName
    /\ input[2].key \notin Recognized
    /\ input[3].key = StationName
    /\ DOMAIN decoded.val[1].rest = {input[2].key}
    /\ decoded.val[1].rest[input[2].key] = RawBag2

(* C6: in a decoded bundle each recognized slot holds the record decoded   *)
(* from the last occurrence of its interface in the input (None when it    *)
(* does not occur) and rest holds the unrecognized entries only: earlier   *)
(* occurrences of a recognized interface leave no trace.                   *)
C6_LastWriteWins ==
    (dpc = "done" /\ decoded.ok)
        => LET b == decoded.val[1]
           IN  /\ b.station = IF StationName \in Keys
                              THEN DecodeStation(LastBag(StationName)).val
                              ELSE None
               /\ b.device = IF DeviceName \in Keys
                             THEN DecodeDevice(LastBag(DeviceName)).val
                             ELSE None
               /\ b.network = IF NetworkName \in Keys
                              THEN DecodeNetwork(LastBag(NetworkName)).val
                              ELSE None
               /\ b.known_network = IF KnownNetworkName \in Keys
                                    THEN DecodeKnownNetwork(LastBag(KnownNetworkName)).val
                                    ELSE None
               /\ b.adapter = IF AdapterName \in Keys
                              THEN DecodeAdapter(LastBag(AdapterName)).val
                              ELSE None
               /\ DOMAIN b.rest = Keys \ Recognized

C6_Witness ==
    /\ dpc = "done"
    /\ decoded.ok
    /\ input = <<Entry(StationName, StationBag1),
                 Entry(NetworkName, NetworkBagFoo),
                 Entry(StationName, StationBag2)>>
    /\ decoded.val[1].station[1].state = "Roaming"
    /\ decoded.val[1].network[1].name = "Foo"


====
